---- MODULE Spec2Model ----
(***************************************************************************)
(* A model of the page-content decoder of src/main.rs:                     *)
(*   - Operation::try_from, the decoder of one (operator, operands) pair;  *)
(*   - main, the walk over pages, content objects and instructions.        *)
(*                                                                         *)
(* Values.  A lopdf Object is a record of its type and its payload.  A     *)
(* byte string is a sequence of numbers 0..255, and a String the sequence  *)
(* of its UTF-8 bytes.  An f64 is the record [int, half] that              *)
(* stands for int + half/2 (so 2.5 is [int |-> 2, half |-> TRUE]); the     *)
(* floats of the model have MantBits bits of precision where an f64 has    *)
(* 53, because the model checker's integers have 32 bits.                  *)
(***************************************************************************)
EXTENDS Integers, Sequences, FiniteSets, TLC

VARIABLES
    operator,    \* decoder: operation.operator of the instruction at hand
    operands,    \* decoder: operation.operands of the instruction at hand
    result,      \* decoder: what try_from returned, NoResult before the call
    pc,          \* main: where the walk stands
    pagesLeft,   \* main: pages doc.page_iter() has yet to yield
    objectsLeft, \* main: object_ids of the current page yet to be visited
    operations,  \* main: content.operations of the current object, yet to be decoded
    out,         \* main: the lines printed so far
    tokenized,   \* history: every instruction the tokenizer returned, in order
    decoded,     \* history: every Operation try_into returned Ok for, in order
    failure,     \* history: the stage that failed, "none" while none has
    work         \* the number of pages, objects and instructions the document may still reveal

vars == <<operator, operands, result, pc, pagesLeft, objectsLeft, operations,
          out, tokenized, decoded, failure, work>>

decVars == <<operator, operands, result>>
mainVars == <<pc, pagesLeft, objectsLeft, operations, out, tokenized, decoded,
              failure, work>>

----------------------------------------------------------------------------
(* Bounds *)

\* Bits of precision of the model's floats (an f64 has 53).
MantBits == 3
\* Longest operand list of the decoder's inputs (Tm needs 6, and one extra).
MaxOperands == 7
\* Longest byte string of a text operand.
MaxStrLen == 2
\* Longest array of a TJ operand.
MaxArrLen == 3
\* Pages, content objects and instructions of a document, in total.
MaxWork == 6

----------------------------------------------------------------------------
(* Helpers of the model *)

RECURSIVE Pow2(_)
Pow2(n) == IF n = 0 THEN 1 ELSE 2 * Pow2(n - 1)

SeqsUpTo(S, n) == UNION {[1..k -> S] : k \in 0..n}

RECURSIVE Concat(_)
\* strings.concat() of a sequence of byte strings
Concat(ss) == IF ss = <<>> THEN <<>> ELSE Head(ss) \o Concat(Tail(ss))

None == [some |-> FALSE]
Some(x) == [some |-> TRUE, val |-> x]

----------------------------------------------------------------------------
(* Objects *)

Integer(n) == [type |-> "Integer", int |-> n]
Real(x) == [type |-> "Real", real |-> x]
Name(bytes) == [type |-> "Name", name |-> bytes]
String(bytes) == [type |-> "String", bytes |-> bytes]
Array(elems) == [type |-> "Array", elems |-> elems]
Null == [type |-> "Null"]
Boolean(b) == [type |-> "Boolean", bool |-> b]

\* the f64 of value i, and of value i + 1/2
Whole(i) == [int |-> i, half |-> FALSE]
AndHalf(i) == [int |-> i, half |-> TRUE]

RECURSIVE BitLen(_)
BitLen(n) == IF n = 0 THEN 0 ELSE 1 + BitLen(n \div 2)

\* The nearest number of MantBits significant bits to the natural n, ties to even.
RoundNat(n) ==
    IF BitLen(n) <= MantBits THEN n
    ELSE LET e == BitLen(n) - MantBits
             q == n \div Pow2(e)
             r == n % Pow2(e)
             half == Pow2(e - 1)
             up == r > half \/ (r = half /\ q % 2 = 1)
         IN  (IF up THEN q + 1 ELSE q) * Pow2(e)

\* `x as f64` of an i64
IntAsF64(n) == Whole(IF n >= 0 THEN RoundNat(n) ELSE 0 - RoundNat(0 - n))

to_f64(object) ==
    CASE object.type = "Real" -> Some(object.real)
      [] object.type = "Integer" -> Some(IntAsF64(object.int))
      [] OTHER -> None

\* opds.get(i), i counted from 0
Get(opds, i) == IF i < Len(opds) THEN Some(opds[i + 1]) ELSE None

\* opds.get(i).map(to_f64).flatten()
GetF64(opds, i) == IF Get(opds, i).some THEN to_f64(Get(opds, i).val) ELSE None

----------------------------------------------------------------------------
(* Results *)

Ok(x) == [kind |-> "Ok", val |-> x]
Err(e) == [kind |-> "Err", err |-> e]
\* unimplemented!() and todo!(): the call does not return, the thread panics
Panic(msg) == [kind |-> "Panic", msg |-> msg]

OperandType == [tag |-> "OperandType"]
MissingOperands == [tag |-> "MissingOperands"]
Lopdf == [tag |-> "Lopdf"]
Utf8 == [tag |-> "Utf8"]
UnknownOperator(name) == [tag |-> "UnknownOperator", name |-> name]

\* the variants of Operation without a payload
Marker(tag) == [tag |-> tag]

----------------------------------------------------------------------------
(* String::from_utf8 *)

IsCont(b) == b >= 128 /\ b <= 191

\* The number of bytes of the well-formed UTF-8 sequence bs starts with, 0 if
\* it starts with none.
Utf8Width(bs) ==
    LET n == Len(bs)
        b1 == bs[1]
        cont(i) == n >= i /\ IsCont(bs[i])
    IN  CASE b1 <= 127 -> 1
          [] b1 >= 194 /\ b1 <= 223 -> IF cont(2) THEN 2 ELSE 0
          [] b1 = 224 ->
                IF n >= 2 /\ bs[2] >= 160 /\ bs[2] <= 191 /\ cont(3) THEN 3 ELSE 0
          [] b1 = 237 ->
                IF n >= 2 /\ bs[2] >= 128 /\ bs[2] <= 159 /\ cont(3) THEN 3 ELSE 0
          [] b1 >= 225 /\ b1 <= 239 /\ b1 # 237 ->
                IF cont(2) /\ cont(3) THEN 3 ELSE 0
          [] b1 = 240 ->
                IF n >= 2 /\ bs[2] >= 144 /\ bs[2] <= 191 /\ cont(3) /\ cont(4)
                THEN 4 ELSE 0
          [] b1 >= 241 /\ b1 <= 243 ->
                IF cont(2) /\ cont(3) /\ cont(4) THEN 4 ELSE 0
          [] b1 = 244 ->
                IF n >= 2 /\ bs[2] >= 128 /\ bs[2] <= 143 /\ cont(3) /\ cont(4)
                THEN 4 ELSE 0
          [] OTHER -> 0

RECURSIVE Utf8Valid(_)
Utf8Valid(bs) ==
    IF bs = <<>> THEN TRUE
    ELSE LET w == Utf8Width(bs)
         IN  w > 0 /\ Utf8Valid(SubSeq(bs, w + 1, Len(bs)))

\* a bug: String::from_utf8_lossy, which puts U+FFFD for what is not UTF-8
from_utf8_lossy(bytes) == IF Utf8Valid(bytes) THEN Ok(bytes) ELSE Ok(<<239, 191, 189>>)

\* String::from_utf8(bytes.to_vec()).map_err(Into::into): the String holds the
\* bytes it was given
from_utf8(bytes) == IF Utf8Valid(bytes) THEN Ok(bytes) ELSE Err(Utf8)

----------------------------------------------------------------------------
(* Operation::try_from *)

\* a bug: a number of a TJ array taken for a space between glyphs
TJElementSpacing(element) ==
    CASE element.type = "String" -> from_utf8(element.bytes)
      [] element.type = "Real" -> Ok(<<32>>)
      [] element.type = "Integer" -> Ok(<<32>>)
      [] OTHER -> Err(OperandType)

\* The closure of the TJ arm: the text one array element contributes
TJElement(element) ==
    CASE element.type = "String" -> from_utf8(element.bytes)
      [] element.type = "Real" -> Ok(<<>>)
      [] element.type = "Integer" -> Ok(<<>>)
      [] OTHER -> Err(OperandType)

RECURSIVE CollectLast(_)
\* a bug: the last Err instead of the first
CollectLast(rs) ==
    IF rs = <<>> THEN Ok(<<>>)
    ELSE LET rest == CollectLast(Tail(rs))
         IN  IF rest.kind = "Err" THEN rest
             ELSE IF Head(rs).kind = "Err" THEN Head(rs)
             ELSE Ok(<<Head(rs).val>> \o rest.val)

RECURSIVE Collect(_)
\* .collect::<Result<Vec<_>, _>>() of a sequence of results: the values if all
\* are Ok, the first Err otherwise
Collect(rs) ==
    IF rs = <<>> THEN Ok(<<>>)
    ELSE IF Head(rs).kind = "Err" THEN Head(rs)
    ELSE LET rest == Collect(Tail(rs))
         IN  IF rest.kind = "Err" THEN rest ELSE Ok(<<Head(rs).val>> \o rest.val)

TJBody(array) ==
    LET collected == Collect([i \in 1..Len(array) |-> TJElement(array[i])])
    IN  IF collected.kind = "Ok" THEN Ok(Concat(collected.val)) ELSE collected

TfArm(opds) ==
    LET o0 == Get(opds, 0)
        size == GetF64(opds, 1)
    IN  IF o0.some /\ o0.val.type = "Name" /\ size.some
        THEN Ok([tag |-> "SetTextFontAndSize", name |-> o0.val.name, size |-> size.val])
        ELSE Panic("unimplemented")

\* a bug: Tc with more operands than one refused
TcArmStrict(opds) ==
    LET spacing == GetF64(opds, 0)
    IN  IF Len(opds) > 1 THEN Err(MissingOperands)
        ELSE IF spacing.some
        THEN Ok([tag |-> "SetCharacterSpacing", spacing |-> spacing.val])
        ELSE Err(OperandType)

TcArm(opds) ==
    LET spacing == GetF64(opds, 0)
    IN  IF spacing.some
        THEN Ok([tag |-> "SetCharacterSpacing", spacing |-> spacing.val])
        ELSE Err(OperandType)

TwArm(opds) ==
    LET spacing == GetF64(opds, 0)
    IN  IF spacing.some
        THEN Ok([tag |-> "SetWordSpacing", spacing |-> spacing.val])
        ELSE Err(OperandType)

TmArm(opds) ==
    LET a == GetF64(opds, 0)
        b == GetF64(opds, 1)
        c == GetF64(opds, 2)
        d == GetF64(opds, 3)
        e == GetF64(opds, 4)
        f == GetF64(opds, 5)
    IN  IF a.some /\ b.some /\ c.some /\ d.some /\ e.some /\ f.some
        THEN Ok([tag |-> "SetTextMatrixAndTextLineMatrix", a |-> a.val, b |-> b.val,
                 c |-> c.val, d |-> d.val, e |-> e.val, f |-> f.val])
        ELSE Err(OperandType)

\* a bug: TJ without operands refused, as Tj is
TJArmStrict(opds) ==
    LET o0 == Get(opds, 0)
    IN  IF o0.some /\ o0.val.type = "Array"
        THEN LET body == TJBody(o0.val.elems)
             IN  IF body.kind = "Ok"
                 THEN Ok([tag |-> "ShowTextAllowingIndividualGlyphPositioning",
                          body |-> body.val])
                 ELSE body
        ELSE Err(OperandType)

TJArm(opds) ==
    LET o0 == Get(opds, 0)
    IN  IF o0.some /\ o0.val.type = "Array"
        THEN LET body == TJBody(o0.val.elems)
             IN  IF body.kind = "Ok"
                 THEN Ok([tag |-> "ShowTextAllowingIndividualGlyphPositioning",
                          body |-> body.val])
                 ELSE body
        ELSE IF ~o0.some
        THEN Ok([tag |-> "ShowTextAllowingIndividualGlyphPositioning", body |-> <<>>])
        ELSE Err(OperandType)

TjArm(opds) ==
    LET o0 == Get(opds, 0)
    IN  IF o0.some /\ o0.val.type = "String"
        THEN LET body == from_utf8(o0.val.bytes)
             IN  IF body.kind = "Ok"
                 THEN Ok([tag |-> "ShowText", body |-> body.val])
                 ELSE body
        ELSE Err(OperandType)

\* a bug: t_x and t_y taken from each other's position
TdArmSwapped(opds) ==
    LET t_x == GetF64(opds, 1)
        t_y == GetF64(opds, 0)
    IN  IF t_x.some /\ t_y.some
        THEN Ok([tag |-> "MoveTextPosition", t_x |-> t_x.val, t_y |-> t_y.val])
        ELSE Panic("todo")

TdArm(opds) ==
    LET t_x == GetF64(opds, 0)
        t_y == GetF64(opds, 1)
    IN  IF t_x.some /\ t_y.some
        THEN Ok([tag |-> "MoveTextPosition", t_x |-> t_x.val, t_y |-> t_y.val])
        ELSE Panic("todo")

TDArm(opds) ==
    LET t_x == GetF64(opds, 0)
        t_y == GetF64(opds, 1)
    IN  IF t_x.some /\ t_y.some
        THEN Ok([tag |-> "MoveTextPositionAndSetLeading", t_x |-> t_x.val,
                 t_y |-> t_y.val])
        ELSE Panic("todo")

reArm(opds) ==
    LET x == GetF64(opds, 0)
        y == GetF64(opds, 1)
        width == GetF64(opds, 2)
        height == GetF64(opds, 3)
    IN  IF x.some /\ y.some /\ width.some /\ height.some
        THEN Ok([tag |-> "AppendRectangleToPath", x |-> x.val, y |-> y.val,
                 width |-> width.val, height |-> height.val])
        ELSE Err(OperandType)

\* a bug: an operator the table does not hold taken for a no-op
UnknownArmNoOp(op) == Ok(Marker("EndPathWithoutFillingOrStroking"))

\* the last arm: (op, _) => Err(PdfParseError::UnknownOperator(op.to_string()))
UnknownArm(op) == Err(UnknownOperator(op))

\* match (operation.operator.as_str(), operation.operands): the arms in the
\* order of the source; the patterns are distinct string literals, so at most
\* one arm before the last matches
try_from(op, opds) ==
    CASE op = "BDC" -> Ok(Marker("BeginMarkedContentSequenceWithPropertyList"))
      [] op = "EMC" -> Ok(Marker("EndMarkedContentSequence"))
      [] op = "BT" -> Ok(Marker("BeginTextObject"))
      [] op = "ET" -> Ok(Marker("EndTextObject"))
      [] op = "CS" -> Ok(Marker("SetColorSpaceForStrokingOperations"))
      [] op = "cs" -> Ok(Marker("SetColorSpaceForNonstrokingOperations"))
      [] op = "scn" -> Ok(Marker("SetColorForNonstrokingOperations"))
      [] op = "Tf" -> TfArm(opds)
      [] op = "Tc" -> TcArm(opds)
      [] op = "Tw" -> TwArm(opds)
      [] op = "Tm" -> TmArm(opds)
      [] op = "TJ" -> TJArm(opds)
      [] op = "Tj" -> TjArm(opds)
      [] op = "q" -> Ok(Marker("SaveGraphicsState"))
      [] op = "Q" -> Ok(Marker("RestoreGraphicsState"))
      [] op = "Td" -> TdArm(opds)
      [] op = "TD" -> TDArm(opds)
      [] op = "T*" -> Ok(Marker("MoveToStartOfNextLine"))
      [] op = "re" -> reArm(opds)
      [] op = "f" -> Ok(Marker("FillPathUsingNonzeroWindingNumberRule"))
      [] op = "F" -> Ok(Marker("FillPathUsingNonzeroWindingNumberRuleObsolete"))
      [] op = "f*" -> Ok(Marker("FillPathUsingEvenOddRule"))
      [] op = "W" -> Ok(Marker("SetClippingPathUsingNonzeroWindingNumberRule"))
      [] op = "n" -> Ok(Marker("EndPathWithoutFillingOrStroking"))
      [] OTHER -> UnknownArm(op)

----------------------------------------------------------------------------
(* The inputs of the decoder *)

\* the 24 operator names of the contract table
TableOperators ==
    {"BDC", "EMC", "BT", "ET", "CS", "cs", "scn", "Tf", "Tc", "Tw", "Tm", "Tj",
     "TJ", "q", "Q", "Td", "TD", "T*", "re", "f", "F", "f*", "W", "n"}

\* names outside the table: two that differ from a table name in case only, one
\* of another PDF operator, the empty name
OtherOperators == {"tj", "bt", "Do", ""}

Operators == TableOperators \cup OtherOperators

\* /F1 and (Hello)
F1 == <<70, 49>>
Hello == <<72, 101, 108, 108, 111>>

\* the least natural that MantBits bits do not hold (2^53 + 1 for an f64)
BigInt == Pow2(MantBits) + 1

\* operands of the long lists: two integers, a real, and a value that is no number
LongElems == {Integer(1), Integer(BigInt), Real(AndHalf(2)), Name(F1)}

\* operands of the short lists: every shape
ShortElems ==
    {Integer(1), Integer(12), Integer(BigInt), Integer(0 - BigInt),
     Integer(BigInt + 2), Real(Whole(1)), Real(AndHalf(2)), Name(F1),
     String(Hello), String(<<255>>), Array(<<>>), Array(<<String(Hello)>>),
     Boolean(TRUE), Null}

DecOperands == SeqsUpTo(LongElems, MaxOperands) \cup SeqsUpTo(ShortElems, 2)

\* the bytes of text operands: 'A', and the two bytes of U+00E9
Bytes == {65, 195, 169}
Strings == SeqsUpTo(Bytes, MaxStrLen)

\* what a TJ array may hold: strings that are UTF-8 ("A", U+00E9), strings that
\* are not (a lead byte alone, a continuation byte alone), numbers, and a value
\* TJ does not support
ArrayElems ==
    {String(<<65>>), String(<<195, 169>>), String(<<195>>), String(<<169>>),
     Integer(5), Real(AndHalf(2)), Name(F1)}
Arrays == SeqsUpTo(ArrayElems, MaxArrLen)

TextOperators == {"Tj", "TJ"}
TextElems == {String(s) : s \in Strings} \cup {Array(a) : a \in Arrays}
TextOperands == {<<>>} \cup {<<o>> : o \in TextElems}
                  \cup {<<o, Integer(5)>> : o \in TextElems}

NoResult == [kind |-> "None"]

----------------------------------------------------------------------------
(* main *)

Instruction(op, opds) == [operator |-> op, operands |-> opds]

\* a well-formed instruction of a marker operator
Bare(op) == Instruction(op, <<>>)

\* The content streams of the documents: the instructions of one stream come
\* from one of five families, which between them hold a well-formed instruction
\* of every table operator and an instruction for every way try_from fails (the
\* Utf8 error, a panic, UnknownOperator, the OperandType error).
TextFamily ==
    {Bare("BT"), Instruction("Tf", <<Name(F1), Integer(12)>>),
     Instruction("Tj", <<String(Hello)>>), Bare("ET"),
     Instruction("Tj", <<String(<<255>>)>>)}

SpacingFamily ==
    {Instruction("Tc", <<Integer(1)>>), Instruction("Tw", <<Real(AndHalf(2))>>),
     Instruction("Tm", <<Integer(1), Integer(0), Integer(0), Integer(1),
                         Real(AndHalf(2)), Integer(12)>>),
     Instruction("TJ", <<Array(<<String(Hello), Integer(5)>>)>>),
     Instruction("Td", <<>>)}

PositionFamily ==
    {Instruction("Td", <<Integer(1), Integer(12)>>),
     Instruction("TD", <<Integer(1), Integer(12)>>), Bare("T*"), Bare("q"), Bare("Q")}

ColourFamily ==
    {Bare("BDC"), Bare("EMC"), Bare("CS"), Bare("cs"), Bare("scn"),
     Instruction("Do", <<Name(F1)>>)}

PathFamily ==
    {Instruction("re", <<Integer(0), Integer(0), Integer(12), Integer(1)>>),
     Bare("f"), Bare("F"), Bare("f*"), Bare("W"), Bare("n"),
     Instruction("Tj", <<>>)}

Families == {TextFamily, SpacingFamily, PositionFamily, ColourFamily, PathFamily}

\* the operations a content stream of at most n instructions may hold
ContentOperations(n) == UNION {SeqsUpTo(family, n) : family \in Families}

LoadingLine == [line |-> "Loading from"]
DecompressingLine == [line |-> "Decompressing stream..."]
\* println!("{:?}", op)
OperationLine(op) == [line |-> "Operation", op |-> op]

\* a bug: ShowText among the arms that print nothing, SetTextFontAndSize not
SuppressedText(op) ==
    op.tag \in {"MoveTextPosition", "MoveTextPositionAndSetLeading",
                "ShowTextAllowingIndividualGlyphPositioning", "ShowText",
                "AppendRectangleToPath", "FillPathUsingNonzeroWindingNumberRule",
                "SetTextMatrixAndTextLineMatrix", "SetCharacterSpacing",
                "SetWordSpacing", "EndPathWithoutFillingOrStroking",
                "BeginMarkedContentSequenceWithPropertyList",
                "SetClippingPathUsingNonzeroWindingNumberRule",
                "MoveToStartOfNextLine",
                "EndMarkedContentSequence", "BeginTextObject", "SaveGraphicsState",
                "RestoreGraphicsState", "EndTextObject"}

\* the arms of `match op` in main that print nothing
Suppressed(op) ==
    op.tag \in {"MoveTextPosition", "MoveTextPositionAndSetLeading",
                "ShowTextAllowingIndividualGlyphPositioning",
                "AppendRectangleToPath", "FillPathUsingNonzeroWindingNumberRule",
                "SetTextMatrixAndTextLineMatrix", "SetCharacterSpacing",
                "SetWordSpacing", "EndPathWithoutFillingOrStroking",
                "BeginMarkedContentSequenceWithPropertyList",
                "SetClippingPathUsingNonzeroWindingNumberRule",
                "SetTextFontAndSize", "MoveToStartOfNextLine",
                "EndMarkedContentSequence", "BeginTextObject", "SaveGraphicsState",
                "RestoreGraphicsState", "EndTextObject"}

\* what the match on the decoded op adds to the output
Dispatch(op) == IF Suppressed(op) THEN <<>> ELSE <<OperationLine(op)>>

\* .unwrap() and .expect(..): TRUE when the value is there, FALSE when the call
\* panics; a panic inside the callee is a panic of main as well
Expect(r) == r.kind = "Ok"

Idle ==
    /\ pc = "idle"
    /\ pagesLeft = 0
    /\ objectsLeft = 0
    /\ operations = <<>>
    /\ out = <<>>
    /\ tokenized = <<>>
    /\ decoded = <<>>
    /\ failure = "none"
    /\ work = 0

\* The decoder alone: try_from applied to one instruction
DecInit ==
    /\ operator \in Operators
    /\ operands \in DecOperands
    /\ result = NoResult
    /\ Idle

TextInit ==
    /\ operator \in TextOperators
    /\ operands \in TextOperands
    /\ result = NoResult
    /\ Idle

Decode ==
    /\ pc = "idle"
    /\ result = NoResult
    /\ result' = try_from(operator, operands)
    /\ UNCHANGED <<operator, operands>>
    /\ UNCHANGED mainVars

DecSpec == DecInit /\ [][Decode]_vars
TextSpec == TextInit /\ [][Decode]_vars

\* The whole program
Init ==
    /\ operator = ""
    /\ operands = <<>>
    /\ result = NoResult
    /\ pc = "start"
    /\ pagesLeft = 0
    /\ objectsLeft = 0
    /\ operations = <<>>
    /\ out = <<>>
    /\ tokenized = <<>>
    /\ decoded = <<>>
    /\ failure = "none"
    /\ work = MaxWork

\* a bug: the failure noted, and the walk going on
AbortSkip(stage) ==
    /\ failure' = stage
    /\ pc' = pc

\* a panic of main: of unwrap(), expect(..), todo!(), or of a callee
Abort(stage) ==
    /\ failure' = stage
    /\ pc' = "aborted"

\* env::args().nth(1).unwrap(), the first println!, Document::load(path).unwrap()
\* and the call of doc.page_iter()
Load ==
    /\ pc = "start"
    /\ \/ /\ Abort("args")
          /\ UNCHANGED <<out, pagesLeft, work>>
       \/ /\ out' = out \o <<LoadingLine>>
          /\ \/ /\ Abort("load")
                /\ UNCHANGED <<pagesLeft, work>>
             \/ \E n \in 0..work :
                   /\ pagesLeft' = n
                   /\ work' = work - n
                   /\ pc' = "pages"
                   /\ UNCHANGED failure
    /\ UNCHANGED <<decVars, objectsLeft, operations, tokenized, decoded>>

\* the outer for loop takes the next page: doc.get_page_contents(page)
NextPage ==
    /\ pc = "pages"
    /\ pagesLeft > 0
    /\ pagesLeft' = pagesLeft - 1
    /\ \E n \in 0..work :
          /\ objectsLeft' = n
          /\ work' = work - n
    /\ pc' = "objects"
    /\ UNCHANGED <<decVars, operations, out, tokenized, decoded, failure>>

\* the outer for loop ends, and main with it
Finish ==
    /\ pc = "pages"
    /\ pagesLeft = 0
    /\ pc' = "done"
    /\ UNCHANGED <<decVars, pagesLeft, objectsLeft, operations, out, tokenized,
                   decoded, failure, work>>

\* the body of the loop over object_ids, down to the inner for loop:
\* get_object(..).expect, the match on the object, decompressed_content().expect,
\* Content::decode(..).expect
OpenObject ==
    /\ pc = "objects"
    /\ objectsLeft > 0
    /\ objectsLeft' = objectsLeft - 1
    /\ \/ /\ Abort("dereference")
          /\ UNCHANGED <<out, operations, tokenized, work>>
       \/ /\ Abort("not a stream")
          /\ UNCHANGED <<out, operations, tokenized, work>>
       \/ /\ out' = out \o <<DecompressingLine>>
          /\ \/ /\ Abort("decompress")
                /\ UNCHANGED <<operations, tokenized, work>>
             \/ /\ Abort("tokenize")
                /\ UNCHANGED <<operations, tokenized, work>>
             \/ \E ops \in ContentOperations(work) :
                   /\ operations' = ops
                   /\ tokenized' = tokenized \o ops
                   /\ work' = work - Len(ops)
                   /\ pc' = "instructions"
                   /\ UNCHANGED failure
    /\ UNCHANGED <<decVars, pagesLeft, decoded>>

\* the loop over object_ids ends
EndPage ==
    /\ pc = "objects"
    /\ objectsLeft = 0
    /\ pc' = "pages"
    /\ UNCHANGED <<decVars, pagesLeft, objectsLeft, operations, out, tokenized,
                   decoded, failure, work>>

\* one turn of the inner for loop: operation.try_into().expect(..) and the match
\* on the decoded op
DecodeInstruction ==
    /\ pc = "instructions"
    /\ operations # <<>>
    /\ LET operation == Head(operations)
           r == try_from(operation.operator, operation.operands)
       IN  /\ operator' = operation.operator
           /\ operands' = operation.operands
           /\ result' = r
           /\ operations' = Tail(operations)
           /\ IF Expect(r)
              THEN /\ decoded' = decoded \o <<r.val>>
                   /\ out' = out \o Dispatch(r.val)
                   /\ UNCHANGED <<pc, failure>>
              ELSE /\ Abort("decode")
                   /\ UNCHANGED <<decoded, out>>
    /\ UNCHANGED <<pagesLeft, objectsLeft, tokenized, work>>

\* the inner for loop ends
EndObject ==
    /\ pc = "instructions"
    /\ operations = <<>>
    /\ pc' = "objects"
    /\ UNCHANGED <<decVars, pagesLeft, objectsLeft, operations, out, tokenized,
                   decoded, failure, work>>

Next ==
    \/ Load
    \/ NextPage
    \/ Finish
    \/ OpenObject
    \/ EndPage
    \/ DecodeInstruction
    \/ EndObject

Spec == Init /\ [][Next]_vars

----------------------------------------------------------------------------
(* The contract table, as the claims state it *)

\* the operators that require operands at every listed position
RequiringOperators == {"Tf", "Tc", "Tw", "Tm", "Tj", "Td", "TD", "re"}

MarkerOperators ==
    {"BDC", "EMC", "BT", "ET", "CS", "cs", "scn", "q", "Q", "T*", "f", "F", "f*",
     "W", "n"}

RequiredShapes(op) ==
    CASE op = "Tf" -> <<"Name", "Number">>
      [] op \in {"Tc", "Tw"} -> <<"Number">>
      [] op = "Tm" -> <<"Number", "Number", "Number", "Number", "Number", "Number">>
      [] op = "Tj" -> <<"String">>
      [] op = "TJ" -> <<"Array">>
      [] op \in {"Td", "TD"} -> <<"Number", "Number">>
      [] op = "re" -> <<"Number", "Number", "Number", "Number">>
      [] OTHER -> <<>>

\* the fields the table fills from positions 0, 1, ...
TableFields(op) ==
    CASE op = "Tf" -> <<"name", "size">>
      [] op \in {"Tc", "Tw"} -> <<"spacing">>
      [] op = "Tm" -> <<"a", "b", "c", "d", "e", "f">>
      [] op \in {"Tj", "TJ"} -> <<"body">>
      [] op \in {"Td", "TD"} -> <<"t_x", "t_y">>
      [] op = "re" -> <<"x", "y", "width", "height">>
      [] OTHER -> <<>>

TableTag(op) ==
    CASE op = "BDC" -> "BeginMarkedContentSequenceWithPropertyList"
      [] op = "EMC" -> "EndMarkedContentSequence"
      [] op = "BT" -> "BeginTextObject"
      [] op = "ET" -> "EndTextObject"
      [] op = "CS" -> "SetColorSpaceForStrokingOperations"
      [] op = "cs" -> "SetColorSpaceForNonstrokingOperations"
      [] op = "scn" -> "SetColorForNonstrokingOperations"
      [] op = "Tf" -> "SetTextFontAndSize"
      [] op = "Tc" -> "SetCharacterSpacing"
      [] op = "Tw" -> "SetWordSpacing"
      [] op = "Tm" -> "SetTextMatrixAndTextLineMatrix"
      [] op = "Tj" -> "ShowText"
      [] op = "TJ" -> "ShowTextAllowingIndividualGlyphPositioning"
      [] op = "q" -> "SaveGraphicsState"
      [] op = "Q" -> "RestoreGraphicsState"
      [] op = "Td" -> "MoveTextPosition"
      [] op = "TD" -> "MoveTextPositionAndSetLeading"
      [] op = "T*" -> "MoveToStartOfNextLine"
      [] op = "re" -> "AppendRectangleToPath"
      [] op = "f" -> "FillPathUsingNonzeroWindingNumberRule"
      [] op = "F" -> "FillPathUsingNonzeroWindingNumberRuleObsolete"
      [] op = "f*" -> "FillPathUsingEvenOddRule"
      [] op = "W" -> "SetClippingPathUsingNonzeroWindingNumberRule"
      [] op = "n" -> "EndPathWithoutFillingOrStroking"

IsNumber(o) == o.type \in {"Integer", "Real"}

HasShape(o, shape) == IF shape = "Number" THEN IsNumber(o) ELSE o.type = shape

\* position i (from 1) of opds is missing or holds a value of another shape
PositionBad(opds, i, shape) == i > Len(opds) \/ ~HasShape(opds[i], shape)

ShapesMet(op, opds) ==
    \A i \in 1..Len(RequiredShapes(op)) : ~PositionBad(opds, i, RequiredShapes(op)[i])

RECURSIVE IsUtf8(_)
\* UTF-8 over the bytes the inputs are made of: ASCII bytes, and C3 A9 (U+00E9)
IsUtf8(bs) ==
    \/ bs = <<>>
    \/ bs[1] < 128 /\ IsUtf8(Tail(bs))
    \/ Len(bs) >= 2 /\ bs[1] = 195 /\ bs[2] = 169 /\ IsUtf8(Tail(Tail(bs)))

\* an element of a TJ array that makes the decoding fail
BadText(e) == e.type = "String" /\ ~IsUtf8(e.bytes)
Unsupported(e) == e.type \notin {"String", "Integer", "Real"}
Offending(e) == BadText(e) \/ Unsupported(e)

RECURSIVE TextOf(_)
\* the string elements of an array, one after the other
TextOf(array) ==
    IF array = <<>> THEN <<>>
    ELSE (IF Head(array).type = "String" THEN Head(array).bytes ELSE <<>>)
         \o TextOf(Tail(array))

RECURSIVE TextLen(_)
TextLen(array) ==
    IF array = <<>> THEN 0
    ELSE (IF Head(array).type = "String" THEN Len(Head(array).bytes) ELSE 0)
         + TextLen(Tail(array))

\* the operands are exactly of the shapes the table requires, text included
WellFormed(op, opds) ==
    /\ op \in TableOperators
    /\ ShapesMet(op, opds)
    /\ op = "Tj" => IsUtf8(opds[1].bytes)
    /\ op = "TJ" => \A i \in 1..Len(opds[1].elems) : ~Offending(opds[1].elems[i])

Abs(n) == IF n < 0 THEN 0 - n ELSE n

\* n is a float of MantBits bits of precision: k * 2^e with k < 2^MantBits
Representable(n) ==
    \E e \in 0..BitLen(Abs(n)) :
        /\ Abs(n) % Pow2(e) = 0
        /\ Abs(n) \div Pow2(e) < Pow2(MantBits)

\* the field holds the operand's value
FieldExact(field, o) ==
    CASE o.type = "Integer" -> field = Whole(o.int)
      [] o.type = "Real" -> field = o.real
      [] o.type = "Name" -> field = o.name
      [] o.type = "String" -> field = o.bytes
      [] o.type = "Array" -> field = TextOf(o.elems)

\* the field holds the operand's value, or for an Integer that no float equals,
\* a float no other float is nearer to it than
FieldNearest(field, o) ==
    IF o.type = "Integer" /\ ~Representable(o.int)
    THEN /\ field.half = FALSE
         /\ Representable(field.int)
         /\ LET d == Abs(field.int - o.int)
            IN  \A m \in (o.int - d + 1)..(o.int + d - 1) : ~Representable(m)
    ELSE FieldExact(field, o)

Decoded == result # NoResult

\* result is the table's variant of operator, every field of it FieldOK of the
\* operand at its position
IsTableVariant(FieldOK(_, _)) ==
    /\ result.kind = "Ok"
    /\ result.val.tag = TableTag(operator)
    /\ DOMAIN result.val =
          {"tag"} \cup {TableFields(operator)[i] : i \in 1..Len(TableFields(operator))}
    /\ \A i \in 1..Len(TableFields(operator)) :
          FieldOK(result.val[TableFields(operator)[i]], operands[i])

----------------------------------------------------------------------------
(* C1: for Tf, Tc, Tw, Tm, Tj, Td, TD and re, an instruction in which a     *)
(* required position is missing or holds a value of the wrong shape is      *)
(* answered with the OperandType error, returned as a value.                *)
C1_BadOperandGivesOperandType ==
    (/\ Decoded
     /\ operator \in RequiringOperators
     /\ ~ShapesMet(operator, operands))
    => result = Err(OperandType)

----------------------------------------------------------------------------
(* C2, as claimed: for every table operator, operands of exactly the        *)
(* required shapes give Ok with the table's variant, and every field equals *)
(* the operand at its position, an Integer n giving the field n.            *)
C2_FieldsEqualOperands ==
    (Decoded /\ WellFormed(operator, operands)) => IsTableVariant(FieldExact)

(* C2, amended: the same, except that an Integer no f64 equals (one beyond  *)
(* 2^53 in magnitude that needs more than 53 bits) gives a nearest f64.     *)
C2_FieldsEqualOrNearest ==
    (Decoded /\ WellFormed(operator, operands)) => IsTableVariant(FieldNearest)

C2_Witness ==
    /\ operator = "Tm"
    /\ operands = <<Integer(1), Real(AndHalf(2)), Integer(BigInt), Integer(1),
                    Real(AndHalf(2)), Integer(1)>>
    /\ result.kind = "Ok"

----------------------------------------------------------------------------
(* C3: an operator name outside the table gives UnknownOperator with that   *)
(* name, whatever the operands; a name of the table never does.             *)
C3_UnknownOperator ==
    Decoded =>
        /\ operator \notin TableOperators => result = Err(UnknownOperator(operator))
        /\ operator \in TableOperators =>
              ~(result.kind = "Err" /\ result.err.tag = "UnknownOperator")

C3_Witness ==
    /\ operator = "tj"
    /\ operands = <<String(Hello)>>
    /\ result = Err(UnknownOperator("tj"))

----------------------------------------------------------------------------
(* C6: TJ without operands and TJ with an empty array give the variant with *)
(* an empty body; no other operator that requires operands accepts an       *)
(* absent operand [0], Tj answering OperandType; TJ whose operand [0] is no *)
(* array answers OperandType.                                               *)
C6_TJEmpty ==
    Decoded =>
        /\ (operator = "TJ" /\ (operands = <<>> \/ operands[1] = Array(<<>>))) =>
              result = Ok([tag |-> "ShowTextAllowingIndividualGlyphPositioning",
                           body |-> <<>>])
        /\ (operator \in RequiringOperators /\ operands = <<>>) => result.kind # "Ok"
        /\ (operator = "Tj" /\ operands = <<>>) => result = Err(OperandType)
        /\ (operator = "TJ" /\ operands # <<>> /\ operands[1].type # "Array") =>
              result = Err(OperandType)

C6_Witness ==
    /\ operator = "TJ"
    /\ operands = <<>>
    /\ result.kind = "Ok"

----------------------------------------------------------------------------
(* C10: operands beyond the required positions change nothing: a marker     *)
(* operator gives its variant for every operand list, any other table       *)
(* operator gives what it gives for the required positions alone; and no    *)
(* result is the MissingOperands or the Lopdf error.                        *)
Prefix(opds, n) == SubSeq(opds, 1, IF Len(opds) < n THEN Len(opds) ELSE n)

C10_ExtraOperandsIgnored ==
    Decoded =>
        /\ operator \in MarkerOperators => result = Ok(Marker(TableTag(operator)))
        /\ result = try_from(operator, Prefix(operands, Len(RequiredShapes(operator))))
        /\ ~(result.kind = "Err" /\ result.err.tag \in {"MissingOperands", "Lopdf"})

C10_Witness ==
    /\ operator = "Tc"
    /\ operands = <<Integer(1), Name(F1), Real(AndHalf(2))>>
    /\ result = Ok([tag |-> "SetCharacterSpacing", spacing |-> Whole(1)])

----------------------------------------------------------------------------
(* Text operands *)

IsTj == Decoded /\ operator = "Tj" /\ operands # <<>> /\ operands[1].type = "String"
IsTJ == Decoded /\ operator = "TJ" /\ operands # <<>> /\ operands[1].type = "Array"

ShowText(body) == Ok([tag |-> "ShowText", body |-> body])
ShowTextGlyphs(body) ==
    Ok([tag |-> "ShowTextAllowingIndividualGlyphPositioning", body |-> body])

\* the place of the first offending element of a TJ array, 0 if it has none
FirstOffending(array) ==
    IF \E i \in 1..Len(array) : Offending(array[i])
    THEN CHOOSE i \in 1..Len(array) :
            /\ Offending(array[i])
            /\ \A j \in 1..(i - 1) : ~Offending(array[j])
    ELSE 0

\* Tj decodes all of its string or nothing
TjAllOrNothing ==
    IsTj => IF IsUtf8(operands[1].bytes)
            THEN result = ShowText(operands[1].bytes)
            ELSE result = Err(Utf8)

(* C4, as claimed: Tj with a string that is not UTF-8 gives the Utf8 error, *)
(* and so does TJ with an array that holds such a string; no variant is     *)
(* returned; bytes that are UTF-8 are the body, unchanged.                  *)
C4_BadTextGivesUtf8 ==
    /\ TjAllOrNothing
    /\ IsTJ =>
          LET array == operands[1].elems
          IN  /\ (\E i \in 1..Len(array) : BadText(array[i])) => result = Err(Utf8)
              /\ FirstOffending(array) = 0 => result = ShowTextGlyphs(TextOf(array))

(* C4, amended: TJ with an array that holds a string that is not UTF-8      *)
(* gives an error and no variant: the Utf8 error, unless an element that is *)
(* neither a string nor a number stands before the first such string, which *)
(* gives OperandType.  The rest is as claimed.                              *)
C4_BadTextGivesError ==
    /\ TjAllOrNothing
    /\ IsTJ =>
          LET array == operands[1].elems
              bad == {i \in 1..Len(array) : BadText(array[i])}
          IN  /\ bad # {} =>
                    IF \E j \in 1..Len(array) :
                          Unsupported(array[j]) /\ \A i \in bad : j < i
                    THEN result = Err(OperandType)
                    ELSE result = Err(Utf8)
              /\ FirstOffending(array) = 0 => result = ShowTextGlyphs(TextOf(array))

C4_Witness ==
    /\ operator = "TJ"
    /\ operands = <<Array(<<String(<<65>>), String(<<195>>), String(<<195, 169>>)>>)>>
    /\ result = Err(Utf8)

----------------------------------------------------------------------------
(* C5: TJ with an array of UTF-8 strings and numbers gives the variant      *)
(* whose body is the strings in array order, the numbers adding nothing:    *)
(* its length is the sum of the strings' lengths.                           *)
C5_TJConcatenates ==
    (IsTJ /\ FirstOffending(operands[1].elems) = 0) =>
        /\ result = ShowTextGlyphs(TextOf(operands[1].elems))
        /\ Len(result.val.body) = TextLen(operands[1].elems)

C5_Witness ==
    /\ operator = "TJ"
    /\ operands = <<Array(<<String(<<65>>), Integer(5), String(<<195, 169>>)>>)>>
    /\ result = ShowTextGlyphs(<<65, 195, 169>>)

----------------------------------------------------------------------------
(* C9: a TJ array with offending elements gives the error of the first of   *)
(* them in array order: Utf8 for a string that is not UTF-8, OperandType    *)
(* for an element that is neither a string nor a number; never a variant.   *)
C9_FirstOffendingDecides ==
    (IsTJ /\ FirstOffending(operands[1].elems) # 0) =>
        LET first == operands[1].elems[FirstOffending(operands[1].elems)]
        IN  result = IF BadText(first) THEN Err(Utf8) ELSE Err(OperandType)

C9_Witness ==
    /\ operator = "TJ"
    /\ operands = <<Array(<<String(<<65>>), Name(F1), String(<<195>>)>>)>>
    /\ result = Err(OperandType)

----------------------------------------------------------------------------
(* The run *)

Terminated == pc \in {"done", "aborted"}

\* the operations the operation lines of the output show, in order
RECURSIVE Reported(_)
Reported(lines) ==
    IF lines = <<>> THEN <<>>
    ELSE (IF Head(lines).line = "Operation" THEN <<Head(lines).op>> ELSE <<>>)
         \o Reported(Tail(lines))

\* the variants the claim names as reported
OnReportList(op) ==
    op.tag \in {"ShowText", "SetColorSpaceForStrokingOperations",
                "SetColorSpaceForNonstrokingOperations",
                "SetColorForNonstrokingOperations",
                "FillPathUsingNonzeroWindingNumberRuleObsolete",
                "FillPathUsingEvenOddRule"}

\* decoded holds the operations of the first instructions of the document, in
\* (page, content object, instruction) order, each once
DecodedInOrder ==
    /\ Len(decoded) <= Len(tokenized)
    /\ \A i \in 1..Len(decoded) :
          try_from(tokenized[i].operator, tokenized[i].operands) = Ok(decoded[i])

\* main can take a step.  A turn of the inner loop has an outcome for every
\* instruction, so it can be taken when its guard holds.
CanStep ==
    \/ pc = "instructions" /\ operations # <<>>
    \/ ENABLED EndObject
    \/ ENABLED NextPage
    \/ ENABLED Finish
    \/ ENABLED OpenObject
    \/ ENABLED EndPage
    \/ ENABLED Load

C7_State ==
    /\ failure # "none" <=> pc = "aborted"
    /\ DecodedInOrder
    /\ pc = "done" =>
          /\ pagesLeft = 0 /\ objectsLeft = 0 /\ operations = <<>>
          /\ Len(decoded) = Len(tokenized)
    /\ pc = "aborted" =>
          \/ /\ failure = "decode"
             /\ result.kind # "Ok"
             /\ Len(tokenized) = Len(decoded) + 1 + Len(operations)
             /\ tokenized[Len(decoded) + 1] = Instruction(operator, operands)
          \/ /\ failure # "decode"
             /\ Len(tokenized) = Len(decoded)
    /\ failure = "tokenize" => out # <<>> /\ out[Len(out)] = DecompressingLine
    /\ ~Terminated => CanStep

\* what is left of the run: three for every page, content object and instruction
\* still to come, and the place in the loops
Remaining ==
    3 * (work + pagesLeft + objectsLeft + Len(operations))
    + (CASE pc = "start" -> 4
         [] pc = "instructions" -> 3
         [] pc = "objects" -> 2
         [] pc = "pages" -> 1
         [] OTHER -> 0)

C7_Step ==
    /\ pc = "aborted" => UNCHANGED vars
    /\ Remaining' < Remaining
    /\ (/\ pc = "instructions"
        /\ operations # <<>>
        /\ try_from(Head(operations).operator, Head(operations).operands).kind # "Ok")
       => (pc' = "aborted" /\ out' = out /\ decoded' = decoded)

(* C7: the run is fail-fast and otherwise complete.  A stage that fails     *)
(* ends the process at once, and nothing is decoded or printed after it;    *)
(* with no failure every instruction of every content object of every page  *)
(* is decoded once, in order, and the run ends (a run that has not ended    *)
(* can take a step, and every step leaves less of the run); a content       *)
(* object whose tokenizing fails has printed no operation line.             *)
C7_FailFast == []C7_State /\ [][C7_Step]_vars

\* aborted by an instruction, with an instruction, a content object and a page
\* still to come
C7_Witness ==
    /\ pc = "aborted"
    /\ failure = "decode"
    /\ operations # <<>>
    /\ objectsLeft > 0
    /\ pagesLeft > 0

----------------------------------------------------------------------------
(* C8: the operation lines of the output are, in order, the decoded         *)
(* operations in (page, content object, instruction) order without the      *)
(* suppressed ones: the six variants the claim lists give a line each, any  *)
(* other gives none.  Tf /F1 12 then Tj (Hello) decode to SetTextFontAndSize*)
(* then ShowText, and the ShowText alone is printed.                        *)
C8_OutputIsFilteredDecoded ==
    /\ DecodedInOrder
    /\ Reported(out) = SelectSeq(decoded, OnReportList)
    /\ (/\ tokenized = <<Instruction("Tf", <<Name(F1), Integer(12)>>),
                         Instruction("Tj", <<String(Hello)>>)>>
        /\ Len(decoded) = 2)
       => /\ decoded = <<[tag |-> "SetTextFontAndSize", name |-> F1,
                          size |-> Whole(12)],
                         [tag |-> "ShowText", body |-> Hello]>>
          /\ Reported(out) = <<[tag |-> "ShowText", body |-> Hello]>>

C8_Witness ==
    /\ pc = "done"
    /\ tokenized = <<Instruction("Tf", <<Name(F1), Integer(12)>>),
                     Instruction("Tj", <<String(Hello)>>)>>
    /\ out = <<LoadingLine, DecompressingLine,
               OperationLine([tag |-> "ShowText", body |-> Hello])>>

====
